---- MODULE Spec2Model ----
(***************************************************************************)
(* Model of nova-simd's generic vectorized math functions                  *)
(* (common/include/nova-simd/detail/vec_math.hpp).                         *)
(*                                                                         *)
(* Every function of the header is a pure, lane-wise map, so one lane is   *)
(* modelled.  A lane is the 32-bit pattern of an IEEE-754 single, kept as  *)
(* the record [s, e, m] of its sign bit, 8-bit exponent field and 23-bit   *)
(* mantissa field; an int_vec lane is the same 32 bits read as a two's     *)
(* complement integer.  The float arithmetic of the vector type (+, -, *,  *)
(* /, sqrt, comparisons, conversions) is IEEE-754 binary32 with            *)
(* round-to-nearest-even, computed here bit-exactly on integers that stay  *)
(* below 2^31.                                                             *)
(***************************************************************************)
EXTENDS Integers, Sequences, FiniteSets, TLC

VARIABLES pc, fn, callArg, callRet, midVal, midInt, cnt

vars == <<pc, fn, callArg, callRet, midVal, midInt, cnt>>

(***************************************************************************)
(* The statements of a function body run in order, each once.              *)
(* "Val([n \in {e} |-> body])" reads as the statement "n = e;" followed by *)
(* body: Val(f) is the value of the function f at the one point of its     *)
(* domain.                                                                 *)
(***************************************************************************)
Val(f) == f[CHOOSE v \in DOMAIN f : TRUE]

(***************************************************************************)
(* 32-bit lanes                                                            *)
(***************************************************************************)
Bits(s, e, m) == [s |-> s, e |-> e, m |-> m]

\* bitwise and of two hexadecimal digits
And4(a, b) ==
    (a % 2) * (b % 2) + 2 * ((a \div 2) % 2) * ((b \div 2) % 2)
    + 4 * ((a \div 4) % 2) * ((b \div 4) % 2) + 8 * (a \div 8) * (b \div 8)

\* bitwise and, or, xor of two fields
RECURSIVE NatAnd(_, _)
NatAnd(a, b) ==
    IF a = 0 \/ b = 0 THEN 0
    ELSE And4(a % 16, b % 16) + 16 * NatAnd(a \div 16, b \div 16)

NatOr(a, b) == (a + b) - NatAnd(a, b)

NatXor(a, b) == (a + b) - 2 * NatAnd(a, b)

\* operator&, operator|, operator^ of the vector types, and the complement
BAnd(a, b) == Bits(a.s * b.s, NatAnd(a.e, b.e), NatAnd(a.m, b.m))
BOr(a, b)  == Bits(NatOr(a.s, b.s), NatOr(a.e, b.e), NatOr(a.m, b.m))
BXor(a, b) == Bits((a.s + b.s) % 2, NatXor(a.e, b.e), NatXor(a.m, b.m))
BNot(a)    == Bits(1 - a.s, 255 - a.e, (2^23 - 1) - a.m)

\* andnot(a, b): (~a) & b
andnot(a, b) == BAnd(BNot(a), b)

AllOnes  == Bits(1, 255, 2^23 - 1)
AllZeros == Bits(0, 0, 0)

gen_sign_mask  == Bits(1, 0, 0)                \* 0x80000000
gen_abs_mask   == Bits(0, 255, 2^23 - 1)       \* 0x7fffffff
gen_exp_mask   == Bits(0, 255, 0)              \* 0x7f800000
gen_exp_mask_1 == Bits(0, 126, 0)              \* 0x3f000000
gen_zero       == Bits(0, 0, 0)                \* 0.0f
gen_one        == Bits(0, 127, 0)              \* 1.0f
gen_05         == Bits(0, 126, 0)              \* 0.5f

\* select(a, b, mask): b where the mask is set, a where it is clear
select(a, b, mask) == BOr(andnot(mask, a), BAnd(mask, b))

(***************************************************************************)
(* int_vec lanes: two's complement arithmetic modulo 2^32                  *)
(***************************************************************************)
\* the lane holding the integer i, -2^31 <= i < 2^31
IntBits(i) ==
    IF i >= 0 THEN Bits(0, i \div 2^23, i % 2^23)
    ELSE LET u == (i + 2^30) + 2^30 IN Bits(1, u \div 2^23, u % 2^23)

\* the integer a lane holds
IntVal(b) ==
    IF b.s = 0 THEN b.e * 2^23 + b.m
    ELSE ((b.e * 2^23 + b.m) - 2^30) - 2^30

Add32(a, b) ==
    LET lm == a.m + b.m
        le == a.e + b.e + (lm \div 2^23)
        ls == a.s + b.s + (le \div 256)
    IN  Bits(ls % 2, le % 256, lm % 2^23)

Sub32(a, b) == Add32(a, Add32(BNot(b), IntBits(1)))

\* slli(x, k): x << k, 0 <= k <= 31; the bits shifted out are lost
slli(x, k) ==
    IF k = 0 THEN x
    ELSE
    LET low == x.e * 2^23 + x.m
        w   == IF k = 1 THEN low ELSE low % 2^(32 - k)
        h   == IF k <= 23 THEN w \div 2^(23 - k) ELSE w * 2^(k - 23)
        m   == IF k < 23 THEN (w % 2^(23 - k)) * 2^k ELSE 0
    IN  Bits(h \div 256, h % 256, m)

\* srli(x, k): the logical x >> k, 0 <= k <= 31
srli(x, k) ==
    IF k = 0 THEN x
    ELSE
    LET low == x.e * 2^23 + x.m
        r   == x.s * 2^(31 - k) + (IF k = 31 THEN 0 ELSE low \div 2^k)
    IN  Bits(0, r \div 2^23, r % 2^23)

mask_eq(a, b) == IF a = b THEN AllOnes ELSE AllZeros

(***************************************************************************)
(* IEEE-754 binary32 arithmetic, round to nearest even                     *)
(***************************************************************************)
IsNaN(x)  == x.e = 255 /\ x.m # 0
IsInf(x)  == x.e = 255 /\ x.m = 0
IsZero(x) == x.e = 0 /\ x.m = 0
IsFinite(x) == x.e < 255

\* a finite x is Sig(x) * 2^Expo(x)
Sig(x) == IF x.e = 0 THEN x.m ELSE 2^23 + x.m
Expo(x) == IF x.e = 0 THEN -149 ELSE x.e - 150

qNaN    == Bits(0, 255, 2^22)
Inf(s)  == Bits(s, 255, 0)
Zero(s) == Bits(s, 0, 0)
FNeg(x) == Bits(1 - x.s, x.e, x.m)

\* the number of bits of n, 0 <= n < 2^31
BitLen(n) ==
    IF n = 0 THEN 0
    ELSE CHOOSE k \in 1..31 : (k = 31 \/ n < 2^k) /\ n >= 2^(k - 1)

\* n with its lowest bit set when sticky holds
Jam(n, sticky) == IF sticky THEN (n - (n % 2)) + 1 ELSE n

\* x shifted right by d bits, the bits shifted out or-ed into the lowest bit
ShiftRightJam(x, d) ==
    IF d <= 0 THEN x
    ELSE IF d >= 31 THEN (IF x = 0 THEN 0 ELSE 1)
    ELSE Jam(x \div 2^d, x % 2^d # 0)

\* the float nearest to (-1)^s * sig * 2^ex, ties to even; 0 <= sig < 2^31
RoundPack(s, sig, ex) ==
    IF sig = 0 THEN Zero(s)
    ELSE
    Val([n \in {BitLen(sig)} |->
    Val([q \in {IF ex + n - 24 > -149 THEN ex + n - 24 ELSE -149} |->
    Val([sh \in {q - ex} |->
    Val([t \in {IF sh <= 0 THEN sig * 2^(-sh)
                ELSE IF sh >= 31 THEN 0 ELSE sig \div 2^sh} |->
    Val([rem \in {IF sh <= 0 THEN 0
                  ELSE IF sh >= 31 THEN sig ELSE sig % 2^sh} |->
    Val([up \in {/\ sh >= 1
                 /\ sh <= 31
                 /\ \/ rem > 2^(sh - 1)
                    \/ rem = 2^(sh - 1) /\ t % 2 = 1} |->
    Val([r \in {IF up THEN t + 1 ELSE t} |->
    IF r < 2^23 THEN Bits(s, 0, r)
    ELSE IF r = 2^24 THEN (IF q + 151 >= 255 THEN Inf(s) ELSE Bits(s, q + 151, 0))
    ELSE IF q + 150 >= 255 THEN Inf(s)
    ELSE Bits(s, q + 150, r - 2^23)])])])])])])])

FAdd(a, b) ==
    IF IsNaN(a) \/ IsNaN(b) THEN qNaN
    ELSE IF IsInf(a) THEN (IF IsInf(b) /\ a.s # b.s THEN qNaN ELSE a)
    ELSE IF IsInf(b) THEN b
    ELSE IF IsZero(a) /\ IsZero(b) THEN Zero(a.s * b.s)
    ELSE
    Val([big \in {IF Expo(a) >= Expo(b) THEN a ELSE b} |->
    Val([small \in {IF Expo(a) >= Expo(b) THEN b ELSE a} |->
    Val([A \in {Sig(big) * 8} |->
    Val([B \in {ShiftRightJam(Sig(small) * 8, Expo(big) - Expo(small))} |->
    Val([sg \in {IF big.s = small.s THEN <<big.s, A + B>>
                 ELSE IF A >= B THEN <<big.s, A - B>>
                 ELSE <<small.s, B - A>>} |->
    IF sg[2] = 0 THEN Zero(0) ELSE RoundPack(sg[1], sg[2], Expo(big) - 3)])])])])])

FSub(a, b) == FAdd(a, FNeg(b))

\* a nonzero finite significand shifted up to 24 bits, and its exponent
NormSig(x) == Sig(x) * 2^(24 - BitLen(Sig(x)))
NormExp(x) == Expo(x) - (24 - BitLen(Sig(x)))

FMul(a, b) ==
    LET s == (a.s + b.s) % 2 IN
    IF IsNaN(a) \/ IsNaN(b) THEN qNaN
    ELSE IF IsInf(a) \/ IsInf(b) THEN
        (IF IsZero(a) \/ IsZero(b) THEN qNaN ELSE Inf(s))
    ELSE IF IsZero(a) \/ IsZero(b) THEN Zero(s)
    ELSE
    Val([sa \in {NormSig(a)} |->
    Val([sb \in {NormSig(b)} |->
    Val([mid \in {(sa \div 4096) * (sb % 4096) + (sa % 4096) * (sb \div 4096)} |->
    Val([t \in {(sa % 4096) * (sb % 4096) + (mid % 4096) * 4096} |->
    Val([lo \in {t % 2^24} |->
    Val([hi \in {(sa \div 4096) * (sb \div 4096) + (mid \div 4096) + (t \div 2^24)} |->
    \* the 48-bit product is hi * 2^24 + lo
    Val([sig \in {Jam(hi * 64 + (lo \div 2^18), lo % 2^18 # 0)} |->
    RoundPack(s, sig, NormExp(a) + NormExp(b) + 18)])])])])])])])

\* long division continued by k more quotient bits: qr is the quotient and
\* the remainder so far, the remainder below b < 2^24, k <= 7
LongDiv(qr, b, k) ==
    <<qr[1] * 2^k + ((qr[2] * 2^k) \div b), (qr[2] * 2^k) % b>>

FDiv(a, b) ==
    LET s == (a.s + b.s) % 2 IN
    IF IsNaN(a) \/ IsNaN(b) THEN qNaN
    ELSE IF IsInf(a) THEN (IF IsInf(b) THEN qNaN ELSE Inf(s))
    ELSE IF IsInf(b) THEN Zero(s)
    ELSE IF IsZero(b) THEN (IF IsZero(a) THEN qNaN ELSE Inf(s))
    ELSE IF IsZero(a) THEN Zero(s)
    ELSE
    Val([sa \in {NormSig(a)} |->
    Val([sb \in {NormSig(b)} |->
    Val([q0 \in {<<sa \div sb, sa % sb>>} |->
    Val([q1 \in {LongDiv(q0, sb, 7)} |->
    Val([q2 \in {LongDiv(q1, sb, 7)} |->
    Val([q3 \in {LongDiv(q2, sb, 7)} |->
    Val([qr \in {LongDiv(q3, sb, 6)} |->
    RoundPack(s, Jam(qr[1], qr[2] # 0), NormExp(a) - NormExp(b) - 27)])])])])])])])

\* the integer square root of sig, 2^23 <= sig < 2^25, and the remainder
SqrtInt(sig) ==
    Val([h \in {CHOOSE c \in 45..90 : c * c <= sig \div 4096
                                      /\ (c + 1) * (c + 1) > sig \div 4096} |->
    Val([d \in {CHOOSE c \in 0..63 : (h * 64 + c) * (h * 64 + c) <= sig
                                     /\ (h * 64 + c + 1) * (h * 64 + c + 1) > sig} |->
    <<h * 64 + d, sig - (h * 64 + d) * (h * 64 + d)>>])])

\* restoring square root continued by k more root bits over zero radicand
\* bits: rr is the root and the remainder so far
SqrtStep(rr, k) ==
    Val([d \in {CHOOSE c \in 0..(2^k - 1) :
                 /\ 2 * rr[1] * 2^k * c + c * c <= rr[2] * 4^k
                 /\ 2 * rr[1] * 2^k * (c + 1) + (c + 1) * (c + 1) > rr[2] * 4^k} |->
    <<rr[1] * 2^k + d, rr[2] * 4^k - (2 * rr[1] * 2^k * d + d * d)>>])

FSqrt(a) ==
    IF IsNaN(a) THEN qNaN
    ELSE IF IsZero(a) THEN a
    ELSE IF a.s = 1 THEN qNaN
    ELSE IF IsInf(a) THEN a
    ELSE
    Val([odd \in {NormExp(a) % 2 = 1} |->
    Val([sa \in {IF odd THEN 2 * NormSig(a) ELSE NormSig(a)} |->
    Val([ea \in {IF odd THEN NormExp(a) - 1 ELSE NormExp(a)} |->
    Val([r0 \in {SqrtInt(sa)} |->
    Val([r1 \in {SqrtStep(r0, 7)} |->
    Val([r2 \in {SqrtStep(r1, 3)} |->
    Val([r3 \in {SqrtStep(r2, 3)} |->
    Val([rr \in {SqrtStep(r3, 1)} |->
    RoundPack(0, Jam(rr[1], rr[2] # 0), (ea \div 2) - 14)])])])])])])])])

\* ordering of non-NaN lanes; both zeros have key 0
Key(x) == IF x.s = 0 THEN x.e * 2^23 + x.m ELSE -(x.e * 2^23 + x.m)
FLt(a, b) == ~IsNaN(a) /\ ~IsNaN(b) /\ Key(a) < Key(b)
FGt(a, b) == FLt(b, a)
FLe(a, b) == ~IsNaN(a) /\ ~IsNaN(b) /\ Key(a) <= Key(b)

mask_gt(a, b) == IF FGt(a, b) THEN AllOnes ELSE AllZeros
mask_lt(a, b) == IF FLt(a, b) THEN AllOnes ELSE AllZeros

\* whether truncating x to a 32-bit integer is defined
TruncDefined(x) == IsFinite(x) /\ (x.e < 158 \/ x = Bits(1, 158, 0))

\* truncate_to_int: the float-to-int conversion; u is what the conversion
\* yields where the value does not fit a 32-bit integer
truncate_to_int(x, u) ==
    IF ~TruncDefined(x) THEN u
    ELSE IF x.e = 158 THEN Bits(1, 0, 0)
    ELSE
    LET mag == IF Expo(x) >= 0 THEN Sig(x) * 2^Expo(x)
               ELSE IF Expo(x) <= -24 THEN 0
               ELSE Sig(x) \div 2^(-Expo(x))
    IN  IntBits(IF x.s = 1 THEN -mag ELSE mag)

\* convert_to_float: the int-to-float conversion
convert_to_float(j) ==
    IF j = Bits(1, 0, 0) THEN Bits(1, 158, 0)
    ELSE LET v == IntVal(j) IN
         IF v < 0 THEN RoundPack(1, -v, 0) ELSE RoundPack(0, v, 0)

(***************************************************************************)
(* literals of vec_math.hpp, rounded to single precision                   *)
(***************************************************************************)
two_to_23_ps  == Bits(0, 150, 0)         \* 0x1.0p23f
log2e         == Bits(0, 127, 3713595)   \* 1.44269504088896341f
exp_C1        == Bits(0, 126, 3244032)   \* 0.693359375f
exp_C2        == Bits(1, 114, 6193283)   \* -2.12194440e-4f
maxlogf       == Bits(0, 133, 3240472)   \* 88.72283905206835f
minlogf       == Bits(1, 133, 5148368)   \* -103.278929903431851103f
max_float     == Bits(0, 254, 8388607)   \* std::numeric_limits<float>::max()
sqrt_05       == Bits(0, 126, 3474675)   \* 0.707106781186547524f
four_over_pi  == Bits(0, 127, 2292099)   \* 1.27323954473516268615...
DP1           == Bits(0, 126, 4784128)   \* 0.78515625
DP2           == Bits(0, 114, 8232960)   \* 2.4187564849853515625e-4
DP3           == Bits(0, 102, 2236777)   \* 3.77489497744594108e-8
pi_c          == Bits(0, 128, 4788187)   \* 3.1415927410125732421875
half_pi_c     == Bits(0, 127, 4788187)   \* 1.57079637050628662109375
offset_range1 == Bits(0, 126, 4788187)   \* 0.785398163397448309615...
offset_range2 == Bits(0, 127, 4788187)   \* 1.570796326794896619231...
tan_pi_8      == Bits(0, 125, 5510093)   \* 0.414213562373095048801...
tan_3pi_8     == Bits(0, 128, 1737338)   \* 2.414213562373095048801...
two           == Bits(0, 128, 0)         \* 2.f
maxlogf_2     == Bits(0, 131, 3145728)   \* 22.f
limit_small   == Bits(0, 126, 2097152)   \* 0.625f
f1            == Bits(1, 119, 3862762)   \* (float)-5.70498872745e-3
f2            == Bits(0, 121, 2691918)   \* (float) 2.06390887954e-2
f3            == Bits(1, 122, 6037037)   \* (float)-5.37397155531e-2
f4            == Bits(0, 124, 557971)    \* (float) 1.33314422036e-1
f5            == Bits(1, 125, 2796185)   \* (float)-3.33332819422e-1
minus_one     == Bits(1, 127, 0)         \* -1.0
minus_05      == Bits(1, 126, 0)         \* -0.5


(***************************************************************************)
(* rounding family                                                         *)
(***************************************************************************)
\* variant: the magic constant is added to the signed argument
vec_round_float_signed(x) ==
    Val([sum \in {FAdd(x, two_to_23_ps)} |->
    FSub(sum, two_to_23_ps)])

vec_round_float(x) ==
    Val([sign \in {BAnd(x, gen_sign_mask)} |->
    Val([abs_arg \in {BXor(sign, x)} |->
    Val([sum \in {FAdd(abs_arg, two_to_23_ps)} |->
    Val([rounded \in {FSub(sum, two_to_23_ps)} |->
    BXor(sign, rounded)])])])])

\* variant: one is subtracted unless the rounded value is below the argument
vec_floor_float_not_less(x) ==
    Val([rounded \in {vec_round_float(x)} |->
    Val([rounded_larger \in {BNot(mask_lt(rounded, x))} |->
    Val([add \in {BAnd(rounded_larger, gen_one)} |->
    FSub(rounded, add)])])])

vec_floor_float(x) ==
    Val([rounded \in {vec_round_float(x)} |->
    Val([rounded_larger \in {mask_gt(rounded, x)} |->
    Val([add \in {BAnd(rounded_larger, gen_one)} |->
    FSub(rounded, add)])])])

vec_ceil_float(x) ==
    Val([rounded \in {vec_round_float(x)} |->
    Val([rounded_smaller \in {mask_lt(rounded, x)} |->
    Val([add \in {BAnd(rounded_smaller, gen_one)} |->
    FAdd(rounded, add)])])])

(***************************************************************************)
(* exponent manipulation                                                   *)
(***************************************************************************)
ldexp_float(x, n) ==
    Val([exponent \in {BAnd(gen_exp_mask, x)} |->
    Val([x_wo_x \in {andnot(gen_exp_mask, x)} |->
    Val([shifted \in {slli(n, 16 + 7)} |->
    Val([new_exp \in {Add32(shifted, exponent)} |->
    BOr(x_wo_x, new_exp)])])])])

\* variant: the exponent is taken relative to 127
frexp_float_bias127(x) ==
    Val([exponent \in {BAnd(gen_exp_mask, x)} |->
    Val([x_wo_x \in {andnot(gen_exp_mask, x)} |->
    Val([shifted \in {srli(exponent, 16 + 7)} |->
    Val([exp \in {Sub32(shifted, IntBits(127))} |->
    [mantissa |-> BOr(x_wo_x, gen_exp_mask_1), exp |-> exp]])])])])

frexp_float(x) ==
    Val([exponent \in {BAnd(gen_exp_mask, x)} |->
    Val([x_wo_x \in {andnot(gen_exp_mask, x)} |->
    Val([shifted \in {srli(exponent, 16 + 7)} |->
    Val([exp \in {Sub32(shifted, IntBits(126))} |->
    [mantissa |-> BOr(x_wo_x, gen_exp_mask_1), exp |-> exp]])])])])

(***************************************************************************)
(* exp, log                                                                *)
(***************************************************************************)
\* z = round(1.44269504088896341f * x)
exp_z(x) ==
    Val([prod \in {FMul(log2e, x)} |->
    vec_round_float(prod)])

\* n = z.truncate_to_int()
exp_n(x, u) ==
    Val([z \in {exp_z(x)} |->
    truncate_to_int(z, u)])

\* the reduced argument g of x, and the polynomial p of e^g
exp_p(x0) ==
    Val([z \in {exp_z(x0)} |->
    Val([z1 \in {FMul(z, exp_C1)} |->
    Val([x1 \in {FSub(x0, z1)} |->
    Val([z2 \in {FMul(z, exp_C2)} |->
    Val([x \in {FSub(x1, z2)} |->
    Val([c1 \in {Bits(0, 127, 3)} |->   \* 1.00000035762786865234375f
    Val([c2 \in {Bits(0, 125, 8388597)} |->   \* 0.4999996721744537353515625f
    Val([c3 \in {Bits(0, 124, 2795461)} |->   \* 0.16665561497211456298828125f
    Val([c4 \in {Bits(0, 122, 2797116)} |->   \* 4.167006909847259521484375e-2f
    Val([c5 \in {Bits(0, 120, 653149)} |->   \* 8.420792408287525177001953125e-3f
    Val([c6 \in {Bits(0, 117, 3518072)} |->   \* 1.386119984090328216552734375e-3f
    Val([p6 \in {FMul(x, c6)} |->
    Val([s5 \in {FAdd(c5, p6)} |->
    Val([p5 \in {FMul(x, s5)} |->
    Val([s4 \in {FAdd(c4, p5)} |->
    Val([p4 \in {FMul(x, s4)} |->
    Val([s3 \in {FAdd(c3, p4)} |->
    Val([p3 \in {FMul(x, s3)} |->
    Val([s2 \in {FAdd(c2, p3)} |->
    Val([p2 \in {FMul(x, s2)} |->
    Val([s1 \in {FAdd(c1, p2)} |->
    Val([p1 \in {FMul(x, s1)} |->
    FAdd(gen_one, p1)])])])])])])])])])])])])])])])])])])])])])])

\* approx = ldexp_float(p, n): the exponential without boundary checks
vec_exp_tanh_float(x, u) ==
    Val([n \in {exp_n(x, u)} |->
    Val([p \in {exp_p(x)} |->
    ldexp_float(p, n)])])

\* approx of vec_exp_float, before the boundaries are handled
exp_approx(x, u) ==
    Val([n \in {exp_n(x, u)} |->
    Val([p \in {exp_p(x)} |->
    ldexp_float(p, n)])])

vec_exp_float(x, u) ==
    Val([approx \in {exp_approx(x, u)} |->
    Val([too_large \in {mask_gt(x, maxlogf)} |->
    Val([too_small \in {mask_lt(x, minlogf)} |->
    Val([ret1 \in {select(approx, max_float, too_large)} |->
    select(ret1, gen_zero, too_small)])])])])

\* frexp and the fold of the mantissa below sqrt(0.5)
\* variant: the exponent is left alone when the mantissa is folded
log_fold_keep_e(x0) ==
    Val([fr \in {frexp_float(x0)} |->
    Val([x \in {fr.mantissa} |->
    Val([x_smaller_sqrt_05 \in {mask_lt(x, sqrt_05)} |->
    Val([x_add \in {BAnd(x, x_smaller_sqrt_05)} |->
    Val([d \in {FSub(x_add, gen_one)} |->
    [x |-> FAdd(x, d), e |-> fr.exp]])])])])])

log_fold(x0) ==
    Val([fr \in {frexp_float(x0)} |->
    Val([x \in {fr.mantissa} |->
    Val([x_smaller_sqrt_05 \in {mask_lt(x, sqrt_05)} |->
    Val([e \in {Add32(fr.exp, x_smaller_sqrt_05)} |->
    Val([x_add \in {BAnd(x, x_smaller_sqrt_05)} |->
    Val([d \in {FSub(x_add, gen_one)} |->
    [x |-> FAdd(x, d), e |-> e]])])])])])])

vec_log_float(x0) ==
    Val([fd \in {log_fold(x0)} |->
    Val([x \in {fd.x} |->
    Val([y8 \in {FMul(Bits(0, 123, 1057211), x)} |->   \*  7.0376836292E-2 * x
    Val([s7 \in {FSub(y8, Bits(0, 123, 7066040))} |->   \* - 1.1514610310E-1
    Val([y7 \in {FMul(s7, x)} |->
    Val([s6 \in {FAdd(y7, Bits(0, 123, 7283994))} |->   \* + 1.1676998740E-1
    Val([y6 \in {FMul(s6, x)} |->
    Val([s5 \in {FSub(y6, Bits(0, 123, 8281423))} |->   \* - 1.2420140846E-1
    Val([y5 \in {FMul(s5, x)} |->
    Val([s4 \in {FAdd(y5, Bits(0, 124, 1173951))} |->   \* + 1.4249322787E-1
    Val([y4 \in {FMul(s4, x)} |->
    Val([s3 \in {FSub(y4, Bits(0, 124, 2797136))} |->   \* - 1.6668057665E-1
    Val([y3 \in {FMul(s3, x)} |->
    Val([s2 \in {FAdd(y3, Bits(0, 124, 5033644))} |->   \* + 2.0000714765E-1
    Val([y2 \in {FMul(s2, x)} |->
    Val([s1 \in {FSub(y2, Bits(0, 124, 8388604))} |->   \* - 2.4999993993E-1
    Val([y1 \in {FMul(s1, x)} |->
    Val([s0 \in {FAdd(y1, Bits(0, 125, 2796202))} |->   \* + 3.3333331174E-1
    Val([m1 \in {FMul(s0, x)} |->
    Val([m2 \in {FMul(m1, x)} |->
    Val([y0 \in {FMul(m2, x)} |->
    Val([fe \in {convert_to_float(fd.e)} |->
    Val([t1 \in {FMul(fe, exp_C2)} |->   \* fe * -2.12194440e-4
    Val([ya \in {FAdd(y0, t1)} |->
    Val([h1 \in {FMul(gen_05, x)} |->   \* 0.5 * x
    Val([h2 \in {FMul(h1, x)} |->
    Val([yb \in {FSub(ya, h2)} |->
    Val([z \in {FAdd(x, yb)} |->
    Val([t2 \in {FMul(exp_C1, fe)} |->   \* 0.693359375 * fe
    FAdd(z, t2)])])])])])])])])])])])])])])])])])])])])])])])])])])])])])

(***************************************************************************)
(* sin, cos, tan                                                           *)
(***************************************************************************)
\* j = (truncate(|x| * 4/pi) + 1) & ~1
trig_j(x, u) ==
    Val([abs_arg \in {BAnd(x, gen_abs_mask)} |->
    Val([y \in {FMul(abs_arg, four_over_pi)} |->
    Val([j \in {truncate_to_int(y, u)} |->
    Val([j1 \in {Add32(j, IntBits(1))} |->
    BAnd(j1, IntBits(-2))])])])])

\* base = ((|x| - y * DP1) - y * DP2) - y * DP3, y = float(j)
trig_base(x, j) ==
    Val([abs_arg \in {BAnd(x, gen_abs_mask)} |->
    Val([y \in {convert_to_float(j)} |->
    Val([y1 \in {FMul(y, DP1)} |->
    Val([b1 \in {FSub(abs_arg, y1)} |->
    Val([y2 \in {FMul(y, DP2)} |->
    Val([b2 \in {FSub(b1, y2)} |->
    Val([y3 \in {FMul(y, DP3)} |->
    FSub(b2, y3)])])])])])])])

\* p1, the even polynomial for [0..pi/4]
trig_p1(base) ==
    Val([z \in {FMul(base, base)} |->
    Val([a1 \in {FMul(Bits(0, 111, 5043662), z)} |->   \* 2.443315711809948E-005 * z
    Val([a2 \in {FSub(a1, Bits(0, 117, 3540506))} |->   \* - 1.388731625493765E-003
    Val([a3 \in {FMul(a2, z)} |->
    Val([a4 \in {FAdd(a3, Bits(0, 122, 2796197))} |->   \* + 4.166664568298827E-002
    Val([a5 \in {FMul(a4, z)} |->
    Val([a6 \in {FMul(a5, z)} |->
    Val([hz \in {FMul(gen_05, z)} |->   \* 0.5f * z
    Val([a7 \in {FSub(a6, hz)} |->
    FAdd(a7, gen_one)])])])])])])])])])

\* p2, the odd polynomial for [pi/4..pi/2]
trig_p2(base) ==
    Val([z \in {FMul(base, base)} |->
    Val([a1 \in {FMul(Bits(1, 114, 5022201), z)} |->   \* -1.9515295891E-4 * z
    Val([a2 \in {FAdd(a1, Bits(0, 120, 557982))} |->   \* + 8.3321608736E-3
    Val([a3 \in {FMul(a2, z)} |->
    Val([a4 \in {FSub(a3, Bits(0, 124, 2796195))} |->   \* - 1.6666654611E-1
    Val([a5 \in {FMul(a4, z)} |->
    Val([a6 \in {FMul(a5, base)} |->
    FAdd(a6, base)])])])])])])])

vec_sin_float(x, u) ==
    Val([sign0 \in {BAnd(x, gen_sign_mask)} |->
    Val([j \in {trig_j(x, u)} |->
    Val([j4 \in {BAnd(j, IntBits(4))} |->
    Val([swap_sign_bit \in {slli(j4, 29)} |->
    Val([sign \in {BXor(sign0, swap_sign_bit)} |->
    Val([j2 \in {BAnd(j, IntBits(2))} |->
    Val([poly_mask \in {mask_eq(j2, IntBits(0))} |->
    Val([base \in {trig_base(x, j)} |->
    Val([p1 \in {trig_p1(base)} |->
    Val([p2 \in {trig_p2(base)} |->
    Val([approximation \in {select(p1, p2, poly_mask)} |->
    BXor(approximation, sign)])])])])])])])])])])])

\* variant: sign and polynomial are taken from j, not from j - 2
vec_cos_float_no_offset(x, u) ==
    Val([j \in {trig_j(x, u)} |->
    Val([nj4 \in {andnot(j, IntBits(4))} |->
    Val([sign \in {slli(nj4, 29)} |->
    Val([j2 \in {BAnd(j, IntBits(2))} |->
    Val([poly_mask \in {mask_eq(j2, IntBits(0))} |->
    Val([base \in {trig_base(x, j)} |->
    Val([p1 \in {trig_p1(base)} |->
    Val([p2 \in {trig_p2(base)} |->
    Val([approximation \in {select(p1, p2, poly_mask)} |->
    BXor(approximation, sign)])])])])])])])])])

vec_cos_float(x, u) ==
    Val([j \in {trig_j(x, u)} |->
    Val([jm2 \in {Sub32(j, IntBits(2))} |->
    Val([nj4 \in {andnot(jm2, IntBits(4))} |->
    Val([sign \in {slli(nj4, 29)} |->
    Val([j2 \in {BAnd(jm2, IntBits(2))} |->
    Val([poly_mask \in {mask_eq(j2, IntBits(0))} |->
    Val([base \in {trig_base(x, j)} |->
    Val([p1 \in {trig_p1(base)} |->
    Val([p2 \in {trig_p2(base)} |->
    Val([approximation \in {select(p1, p2, poly_mask)} |->
    BXor(approximation, sign)])])])])])])])])])])

\* the tan polynomial on the reduced argument
tan_approx(x) ==
    Val([x2 \in {FMul(x, x)} |->
    Val([t6 \in {FMul(x2, Bits(0, 120, 1692980))} |->   \* 9.3892104923725128173828125e-3
    Val([s5 \in {FAdd(Bits(0, 118, 4980350), t6)} |->   \* 3.1127030961215496063232421875e-3
    Val([t5 \in {FMul(x2, s5)} |->
    Val([s4 \in {FAdd(Bits(0, 121, 4729992), t5)} |->   \* 2.443529665470123291015625e-2
    Val([t4 \in {FMul(x2, s4)} |->
    Val([s3 \in {FAdd(Bits(0, 122, 5948414), t4)} |->   \* 5.3409568965435028076171875e-2
    Val([t3 \in {FMul(x2, s3)} |->
    Val([s2 \in {FAdd(Bits(0, 124, 562926), t3)} |->   \* 0.1333882510662078857421875
    Val([t2 \in {FMul(x2, s2)} |->
    Val([s1 \in {FAdd(Bits(0, 125, 2796143), t2)} |->   \* 0.3333315551280975341796875
    Val([xx \in {FMul(x, x2)} |->
    Val([t1 \in {FMul(xx, s1)} |->
    FAdd(x, t1)])])])])])])])])])])])])])

vec_tan_float(x, u) ==
    Val([sign \in {BAnd(x, gen_sign_mask)} |->
    Val([j \in {trig_j(x, u)} |->
    Val([j2 \in {BAnd(j, IntBits(2))} |->
    Val([poly_mask \in {mask_eq(j2, IntBits(0))} |->
    Val([base \in {trig_base(x, j)} |->
    Val([approx \in {tan_approx(base)} |->
    Val([recip \in {FDiv(minus_one, approx)} |->
    Val([approximation \in {select(recip, approx, poly_mask)} |->
    BXor(approximation, sign)])])])])])])])])

(***************************************************************************)
(* asin, acos, atan                                                        *)
(***************************************************************************)
\* approx ^ sign: the value before the |arg| > 1 guard
asin_approx(x0) ==
    Val([abs_arg \in {BAnd(x0, gen_abs_mask)} |->
    Val([sign \in {BAnd(x0, gen_sign_mask)} |->
    Val([arg_greater_05 \in {mask_gt(abs_arg, gen_05)} |->
    Val([d1 \in {FSub(gen_one, abs_arg)} |->
    Val([d2 \in {FMul(d1, gen_05)} |->
    Val([arg_reduced \in {FSqrt(d2)} |->
    Val([x \in {select(abs_arg, arg_reduced, arg_greater_05)} |->
    Val([x2 \in {FMul(x, x)} |->
    Val([a5 \in {FMul(x2, Bits(0, 122, 2927829))} |->   \* 4.21570129692554473876953125e-2
    Val([s4 \in {FAdd(Bits(0, 121, 4595885), a5)} |->   \* 2.418550290167331695556640625e-2
    Val([a4 \in {FMul(x2, s4)} |->
    Val([s3 \in {FAdd(Bits(0, 122, 3816889), a4)} |->   \* 4.54690195620059967041015625e-2
    Val([a3 \in {FMul(x2, s3)} |->
    Val([s2 \in {FAdd(Bits(0, 123, 1671427), a3)} |->   \* 7.4953101575374603271484375e-2
    Val([a2 \in {FMul(x2, s2)} |->
    Val([s1 \in {FAdd(Bits(0, 124, 2796260), a2)} |->   \* 0.166667520999908447265625
    Val([xx \in {FMul(x, x2)} |->
    Val([a1 \in {FMul(xx, s1)} |->
    Val([approx_poly \in {FAdd(x, a1)} |->
    Val([r1 \in {FSub(half_pi_c, approx_poly)} |->
    Val([approx_poly_reduced \in {FSub(r1, approx_poly)} |->
    Val([approx \in {select(approx_poly, approx_poly_reduced, arg_greater_05)} |->
    BXor(approx, sign)])])])])])])])])])])])])])])])])])])])])])])

vec_asin_float(x) ==
    Val([abs_arg \in {BAnd(x, gen_abs_mask)} |->
    Val([approx \in {asin_approx(x)} |->
    Val([guard \in {mask_gt(abs_arg, gen_one)} |->
    select(approx, gen_zero, guard)])])])

\* asin_arg: what vec_acos_float hands to vec_asin_float
acos_asin_arg(x) ==
    Val([abs_arg \in {BAnd(x, gen_abs_mask)} |->
    Val([arg_greater_05 \in {mask_gt(abs_arg, gen_05)} |->
    Val([d1 \in {FSub(gen_one, abs_arg)} |->
    Val([d2 \in {FMul(d1, gen_05)} |->
    Val([asin_arg_greater_05 \in {FSqrt(d2)} |->
    select(x, asin_arg_greater_05, arg_greater_05)])])])])])

\* ret before the |arg| > 1 guard
acos_regions(x) ==
    Val([asin_arg \in {acos_asin_arg(x)} |->
    Val([asin \in {vec_asin_float(asin_arg)} |->
    Val([two_asin \in {FAdd(asin, asin)} |->
    Val([ret_m1_m05 \in {FSub(pi_c, two_asin)} |->
    Val([ret_m05_05 \in {FSub(half_pi_c, asin)} |->
    Val([ret_05_1 \in {two_asin} |->
    Val([gt_05 \in {mask_gt(x, gen_05)} |->
    Val([ret_m05_1 \in {select(ret_m05_05, ret_05_1, gt_05)} |->
    Val([gt_m05 \in {mask_gt(x, minus_05)} |->
    select(ret_m1_m05, ret_m05_1, gt_m05)])])])])])])])])])

\* variant: the guard compares the signed argument, not its magnitude
vec_acos_float_signed_guard(x) ==
    Val([ret \in {acos_regions(x)} |->
    Val([guard \in {mask_gt(x, gen_one)} |->
    select(ret, gen_zero, guard)])])

vec_acos_float(x) ==
    Val([abs_arg \in {BAnd(x, gen_abs_mask)} |->
    Val([ret \in {acos_regions(x)} |->
    Val([guard \in {mask_gt(abs_arg, gen_one)} |->
    select(ret, gen_zero, guard)])])])

vec_atan_float(x0) ==
    Val([sign_arg \in {BAnd(x0, gen_sign_mask)} |->
    Val([abs_arg \in {BAnd(x0, gen_abs_mask)} |->
    Val([arg_range0 \in {abs_arg} |->
    Val([n1 \in {FSub(abs_arg, gen_one)} |->
    Val([n2 \in {FAdd(abs_arg, gen_one)} |->
    Val([arg_range1 \in {FDiv(n1, n2)} |->
    Val([arg_range2 \in {FDiv(FNeg(gen_one), abs_arg)} |->
    Val([mask_range_01 \in {mask_gt(abs_arg, tan_pi_8)} |->
    Val([mask_range_12 \in {mask_gt(abs_arg, tan_3pi_8)} |->
    Val([arg_12 \in {select(arg_range1, arg_range2, mask_range_12)} |->
    Val([approx_arg \in {select(arg_range0, arg_12, mask_range_01)} |->
    Val([offset_12 \in {select(offset_range1, offset_range2, mask_range_12)} |->
    Val([approx_offset \in {select(gen_zero, offset_12, mask_range_01)} |->
    Val([x \in {approx_arg} |->
    Val([x2 \in {FMul(x, x)} |->
    Val([b4 \in {FMul(x2, Bits(0, 123, 2421670))} |->   \* 8.054284751415252685546875e-2
    Val([s3 \in {FAdd(Bits(1, 124, 924678), b4)} |->   \* -0.1387787759304046630859375
    Val([b3 \in {FMul(x2, s3)} |->
    Val([s2 \in {FAdd(Bits(0, 124, 5018221), b3)} |->   \* 0.19977732002735137939453125
    Val([b2 \in {FMul(x2, s2)} |->
    Val([s1 \in {FAdd(Bits(1, 125, 2796074), b2)} |->   \* -0.333329498767852783203125
    Val([ox \in {FAdd(approx_offset, x)} |->
    Val([xx \in {FMul(x, x2)} |->
    Val([b1 \in {FMul(xx, s1)} |->
    Val([approx \in {FAdd(ox, b1)} |->
    BXor(approx, sign_arg)])])])])])])])])])])])])])])])])])])])])])])])])])

(***************************************************************************)
(* tanh                                                                    *)
(***************************************************************************)
tanh_result_small(x) ==
    Val([sign_arg \in {BAnd(x, gen_sign_mask)} |->
    Val([abs_arg \in {BXor(x, sign_arg)} |->
    Val([arg_sqr \in {FMul(abs_arg, abs_arg)} |->
    Val([m1 \in {FMul(f1, arg_sqr)} |->
    Val([s1 \in {FAdd(m1, f2)} |->
    Val([m2 \in {FMul(s1, arg_sqr)} |->
    Val([s2 \in {FAdd(m2, f3)} |->
    Val([m3 \in {FMul(s2, arg_sqr)} |->
    Val([s3 \in {FAdd(m3, f4)} |->
    Val([m4 \in {FMul(s3, arg_sqr)} |->
    Val([s4 \in {FAdd(m4, f5)} |->
    Val([m5 \in {FMul(s4, arg_sqr)} |->
    Val([m6 \in {FMul(m5, x)} |->
    FAdd(m6, x)])])])])])])])])])])])])])

tanh_result_medium_abs(x, u) ==
    Val([sign_arg \in {BAnd(x, gen_sign_mask)} |->
    Val([abs_arg \in {BXor(x, sign_arg)} |->
    Val([dbl \in {FAdd(abs_arg, abs_arg)} |->
    Val([ex \in {vec_exp_tanh_float(dbl, u)} |->
    Val([den \in {FAdd(ex, gen_one)} |->
    Val([quot \in {FDiv(two, den)} |->
    FSub(gen_one, quot)])])])])])])

\* variant: the large branch is left out, the medium value is kept above 22
vec_tanh_float_no_limit(x, u) ==
    Val([sign_arg \in {BAnd(x, gen_sign_mask)} |->
    Val([abs_arg \in {BXor(x, sign_arg)} |->
    Val([result_small \in {tanh_result_small(x)} |->
    Val([abs_small \in {mask_lt(abs_arg, limit_small)} |->
    Val([result_medium_abs \in {tanh_result_medium_abs(x, u)} |->
    Val([result_lm \in {BOr(result_medium_abs, sign_arg)} |->
    select(result_lm, result_small, abs_small)])])])])])])

vec_tanh_float(x, u) ==
    Val([sign_arg \in {BAnd(x, gen_sign_mask)} |->
    Val([abs_arg \in {BXor(x, sign_arg)} |->
    Val([abs_big \in {mask_gt(abs_arg, maxlogf_2)} |->
    Val([result_limit_abs \in {gen_one} |->
    Val([result_small \in {tanh_result_small(x)} |->
    Val([abs_small \in {mask_lt(abs_arg, limit_small)} |->
    Val([result_medium_abs \in {tanh_result_medium_abs(x, u)} |->
    Val([result_lm_abs \in {select(result_medium_abs, result_limit_abs, abs_big)} |->
    Val([result_lm \in {BOr(result_lm_abs, sign_arg)} |->
    select(result_lm, result_small, abs_small)])])])])])])])])])

(***************************************************************************)
(* Inputs.  A call takes one lane; the lanes tried are the literals the    *)
(* functions compare against with their neighbours, and grids of           *)
(* exponents and mantissas.                                                *)
(***************************************************************************)
Ulps       == 2     \* neighbours of a literal: up to Ulps steps either side
MaxOdd     == 3     \* mantissa samples j * 2^k - d, 1 <= j <= MaxOdd
MaxOff     == 1     \*                               0 <= d <= MaxOff
Steps      == 4     \* coarse mantissas: Steps equal parts of [1, 2)
MaxCompose == 2     \* how often a rounding function is applied to its result

Mag(x) == x.e * 2^23 + x.m
FromMag(s, g) == Bits(s, g \div 2^23, g % 2^23)
Around(p) == {FromMag(p.s, Mag(p) + d) : d \in (-Ulps)..Ulps}
BothSigns(S) == S \cup {FNeg(x) : x \in S}

MantSamples ==
    {g \in {j * 2^k - d : j \in 1..MaxOdd, k \in 0..22, d \in 0..MaxOff} :
        g >= 0 /\ g < 2^23}
MantCoarse == {(k * 2^23) \div Steps : k \in 0..(Steps - 1)}

\* what a float-to-int conversion may yield where it is undefined
UndefInts == {Bits(1, 0, 0), Bits(0, 0, 0), Bits(0, 255, 2^23 - 1)}
UndefChoice(x) == IF TruncDefined(x) THEN {Bits(1, 0, 0)} ELSE UndefInts

RoundInputs ==
    {Bits(s, e, m) : s \in {0, 1},
                     e \in {0, 1, 254} \cup 125..152 \cup 173..175,
                     m \in MantSamples}
    \cup BothSigns({Inf(0), gen_zero, Bits(0, 128, 2^21)})

ExpInputs ==
    BothSigns(Around(maxlogf) \cup Around(minlogf))
    \cup {Bits(s, e, m) : s \in {0, 1}, e \in {0, 100, 200, 254} \cup 124..135,
                          m \in MantCoarse}
    \cup BothSigns({Inf(0), gen_zero, Bits(0, 134, 2^22 + 2^20)})

FrexpInputs ==
    {Bits(s, e, m) : s \in {0, 1}, e \in 0..254, m \in MantCoarse \cup {1, 2^23 - 1}}

LogInputs ==
    {Bits(s, e, m) : s \in {0, 1},
                     e \in {1, 2, 64, 125, 126, 127, 128, 129, 190, 253, 254},
                     m \in MantCoarse \cup {g.m : g \in Around(sqrt_05)}
                          \cup {1, 2^23 - 1}}
    \cup BothSigns({gen_zero, Inf(0)})

TrigInputs ==
    {Bits(s, e, m) : s \in {0, 1}, e \in {0, 100, 140, 150, 157, 158, 200} \cup 124..132,
                     m \in MantCoarse}
    \cup BothSigns({gen_zero, Inf(0)})

InvInputs ==
    BothSigns(Around(gen_05) \cup Around(gen_one) \cup Around(tan_pi_8)
              \cup Around(tan_3pi_8))
    \cup {Bits(s, e, m) : s \in {0, 1}, e \in {0, 1, 100, 200, 254} \cup 122..130,
                          m \in MantCoarse}
    \cup BothSigns({gen_zero, Inf(0)})

TanhInputs ==
    BothSigns(Around(limit_small) \cup Around(maxlogf_2))
    \cup {Bits(s, e, m) : s \in {0, 1}, e \in {0, 1, 100, 150, 200, 254} \cup 120..134,
                          m \in MantCoarse}
    \cup BothSigns({gen_zero, Inf(0)})

SymInputs ==
    BothSigns(Around(limit_small) \cup Around(maxlogf_2) \cup Around(tan_pi_8)
              \cup Around(tan_3pi_8))
    \cup {Bits(s, e, m) : s \in {0, 1}, e \in {0, 1, 100, 150, 200, 254} \cup 122..132,
                          m \in MantCoarse}
    \cup BothSigns({gen_zero, Inf(0)})

(***************************************************************************)
(* State: the last call.  pc is "idle" before it and "done" after it; fn   *)
(* names the function called, callArg its argument and callRet its result; *)
(* midVal and midInt are locals of the function the claims are about; cnt  *)
(* counts the applications of a rounding function to its own result.       *)
(***************************************************************************)
InitWith(S) ==
    /\ pc = "idle"
    /\ fn = "none"
    /\ callArg \in S
    /\ callRet = gen_zero
    /\ midVal = gen_zero
    /\ midInt = AllZeros
    /\ cnt = 0

Call(name, r, mv, mi) ==
    /\ pc = "idle"
    /\ pc' = "done"
    /\ fn' = name
    /\ callRet' = r
    /\ midVal' = mv
    /\ midInt' = mi
    /\ UNCHANGED <<callArg, cnt>>

\* f(f(x)): the function called again on what it returned, the earlier
\* argument kept in midVal
Compose(name, r) ==
    /\ pc = "done"
    /\ fn = name
    /\ cnt < MaxCompose
    /\ callArg' = callRet
    /\ midVal' = callArg
    /\ callRet' = r
    /\ cnt' = cnt + 1
    /\ UNCHANGED <<pc, fn, midInt>>

\* f(-x) after f(x): the function called on the negated argument, the
\* earlier result kept in midVal
Mirror(name, r) ==
    /\ pc = "done"
    /\ fn = name
    /\ pc' = "mirrored"
    /\ callArg' = FNeg(callArg)
    /\ midVal' = callRet
    /\ callRet' = r
    /\ UNCHANGED <<fn, midInt, cnt>>

Round ==
    \/ Call("round", vec_round_float(callArg), gen_zero, AllZeros)
    \/ Compose("round", vec_round_float(callRet))

Floor ==
    \/ Call("floor", vec_floor_float(callArg), gen_zero, AllZeros)
    \/ Compose("floor", vec_floor_float(callRet))

Ceil ==
    \/ Call("ceil", vec_ceil_float(callArg), gen_zero, AllZeros)
    \/ Compose("ceil", vec_ceil_float(callRet))

FrexpLdexp ==
    \E fr \in {frexp_float(callArg)} :
        Call("frexp_ldexp", ldexp_float(fr.mantissa, fr.exp), fr.mantissa, fr.exp)

Exp ==
    \E u \in UndefChoice(exp_z(callArg)) :
        Call("exp", vec_exp_float(callArg, u), exp_approx(callArg, u), exp_n(callArg, u))

Log ==
    \E fd \in {log_fold(callArg)} :
        Call("log", vec_log_float(callArg), fd.x, fd.e)

Sin ==
    \E u \in UndefChoice(FMul(BAnd(callArg, gen_abs_mask), four_over_pi)) :
        \E j \in {trig_j(callArg, u)} :
            Call("sin", vec_sin_float(callArg, u), trig_base(callArg, j), j)

Cos ==
    \E u \in UndefChoice(FMul(BAnd(callArg, gen_abs_mask), four_over_pi)) :
        \E j \in {trig_j(callArg, u)} :
            Call("cos", vec_cos_float(callArg, u), trig_base(callArg, j), j)

Tan ==
    \E u \in UndefChoice(FMul(BAnd(callArg, gen_abs_mask), four_over_pi)) :
        \E j \in {trig_j(callArg, u)} :
            Call("tan", vec_tan_float(callArg, u), trig_base(callArg, j), j)

Asin == Call("asin", vec_asin_float(callArg), asin_approx(callArg), AllZeros)

Acos == Call("acos", vec_acos_float(callArg), acos_regions(callArg), AllZeros)

Atan == Call("atan", vec_atan_float(callArg), gen_zero, AllZeros)

Tanh ==
    \E dbl \in {FAdd(BAnd(callArg, gen_abs_mask), BAnd(callArg, gen_abs_mask))} :
      \E u \in UndefChoice(exp_z(dbl)) :
        Call("tanh", vec_tanh_float(callArg, u), tanh_result_medium_abs(callArg, u), u)

\* The float-to-int conversion is a function of its operand: on |-x| = |x|
\* it yields what it yielded before.
SinNeg ==
    \E u \in UndefChoice(FMul(BAnd(callArg, gen_abs_mask), four_over_pi)) :
        /\ trig_j(FNeg(callArg), u) = midInt
        /\ Mirror("sin", vec_sin_float(FNeg(callArg), u))

CosNeg ==
    \E u \in UndefChoice(FMul(BAnd(callArg, gen_abs_mask), four_over_pi)) :
        /\ trig_j(FNeg(callArg), u) = midInt
        /\ Mirror("cos", vec_cos_float(FNeg(callArg), u))

AtanNeg == Mirror("atan", vec_atan_float(FNeg(callArg)))

TanhNeg == Mirror("tanh", vec_tanh_float(FNeg(callArg), midInt))

InitRound == InitWith(RoundInputs)
NextRound == Round \/ Floor \/ Ceil
SpecRound == InitRound /\ [][NextRound]_vars

InitExp == InitWith(ExpInputs)
NextExp == Exp
SpecExp == InitExp /\ [][NextExp]_vars

InitFrexp == InitWith(FrexpInputs)
NextFrexp == FrexpLdexp
SpecFrexp == InitFrexp /\ [][NextFrexp]_vars

InitLog == InitWith(LogInputs)
NextLog == Log
SpecLog == InitLog /\ [][NextLog]_vars

InitTrig == InitWith(TrigInputs)
NextTrig == Sin \/ Cos \/ Tan
SpecTrig == InitTrig /\ [][NextTrig]_vars

InitInv == InitWith(InvInputs)
NextInv == Asin \/ Acos
SpecInv == InitInv /\ [][NextInv]_vars

InitTanh == InitWith(TanhInputs)
NextTanh == Tanh
SpecTanh == InitTanh /\ [][NextTanh]_vars

InitSym == InitWith(SymInputs)
NextSym == Sin \/ Cos \/ Atan \/ Tanh \/ SinNeg \/ CosNeg \/ AtanNeg \/ TanhNeg
SpecSym == InitSym /\ [][NextSym]_vars

Init ==
    InitWith(SymInputs \cup RoundInputs \cup ExpInputs \cup FrexpInputs \cup LogInputs
             \cup TrigInputs \cup InvInputs \cup TanhInputs)

Next ==
    \/ Round \/ Floor \/ Ceil
    \/ FrexpLdexp \/ Exp \/ Log
    \/ Sin \/ Cos \/ Tan
    \/ Asin \/ Acos \/ Atan
    \/ Tanh
    \/ SinNeg \/ CosNeg \/ AtanNeg \/ TanhNeg

Spec == Init /\ [][Next]_vars
(***************************************************************************)
(* Claims about vec_exp_float                                              *)
(***************************************************************************)
\* The decimal 88.72283905206835 lies between the adjacent floats
\* 88.72283172607422 (0x42B17217) and 88.72283935546875 (0x42B17218), so a
\* lane is greater than it exactly when it is at least the second one.
GtDecimalMaxlog(x) ==
    /\ ~IsNaN(x)
    /\ x.s = 0
    /\ Mag(x) >= Mag(Bits(0, 133, 3240472))

\* The decimal -103.278929903431851 lies between the adjacent floats
\* -103.2789306640625 (0xC2CE8ED0) and -103.27892303466797 (0xC2CE8ECF), so
\* a lane is smaller than it exactly when it is at most the first one.
LtDecimalMinlog(x) ==
    /\ ~IsNaN(x)
    /\ x.s = 1
    /\ Mag(x) >= Mag(Bits(1, 133, 5148368))

\* C1: vec_exp_float returns FLT_MAX for every lane x > 88.72283905206835,
\* 0 for every lane x < -103.278929903431851, whatever the unclamped path
\* computed, and the unclamped value for every lane between the two bounds.
C1_Saturation ==
    fn = "exp" =>
        /\ GtDecimalMaxlog(callArg) => callRet = max_float
        /\ LtDecimalMinlog(callArg) => callRet = gen_zero
        /\ (~GtDecimalMaxlog(callArg) /\ ~LtDecimalMinlog(callArg)) => callRet = midVal
(***************************************************************************)
(* Claims about vec_asin_float and vec_acos_float                          *)
(***************************************************************************)
\* |x| > 1 and |x| <= 1 on the bit pattern (1.0 is exponent field 127,
\* mantissa 0); infinities count as |x| > 1
AbsGtOne(x) == ~IsNaN(x) /\ Mag(x) > 127 * 2^23
AbsLeOne(x) == Mag(x) <= 127 * 2^23

\* C2: vec_asin_float and vec_acos_float return exactly 0 for every lane with
\* |x| > 1, whatever the sqrt of a negative number and the polynomial gave,
\* and for |x| <= 1 (x = 1 and x = -1 included) they return the computed
\* value untouched.
C2_DomainGuard ==
    fn \in {"asin", "acos"} =>
        /\ AbsGtOne(callArg) => callRet = gen_zero
        /\ AbsLeOne(callArg) => callRet = midVal

\* acos of a lane below -1: the regions gave a NaN, the result is 0
C2_Witness ==
    /\ fn = "acos"
    /\ callArg.s = 1
    /\ AbsGtOne(callArg)
    /\ IsNaN(midVal)
    /\ callRet = gen_zero
(***************************************************************************)
(* Claims about the rounding family                                        *)
(***************************************************************************)
\* A lane with |x| < 2^23 has exponent field below 150; its magnitude is
\* Sig(x) / 2^k with k = -Expo(x) >= 1.
Below2p23(x) == x.e < 150

\* integer part of |x|
IntPart(x) == IF -Expo(x) >= 25 THEN 0 ELSE Sig(x) \div 2^(-Expo(x))

\* whether |x| has a fractional part
HasFrac(x) == IF -Expo(x) >= 25 THEN Sig(x) # 0 ELSE Sig(x) % 2^(-Expo(x)) # 0

\* the fractional part of |x| against one half: -1 below, 0 equal, 1 above
FracVsHalf(x) ==
    IF -Expo(x) >= 25 THEN -1
    ELSE LET fr   == Sig(x) % 2^(-Expo(x))
             half == 2^(-Expo(x) - 1)
         IN  IF fr < half THEN -1 ELSE IF fr = half THEN 0 ELSE 1

\* the integer nearest to |x|, ties to the even one
NearestEven(x) ==
    IF FracVsHalf(x) = 1 \/ (FracVsHalf(x) = 0 /\ IntPart(x) % 2 = 1)
    THEN IntPart(x) + 1 ELSE IntPart(x)

\* greatest integer <= x and least integer >= x
FloorInt(x) ==
    IF x.s = 0 THEN IntPart(x)
    ELSE -(IF HasFrac(x) THEN IntPart(x) + 1 ELSE IntPart(x))
CeilInt(x) ==
    IF x.s = 1 THEN -IntPart(x)
    ELSE (IF HasFrac(x) THEN IntPart(x) + 1 ELSE IntPart(x))

\* the float with sign bit s and magnitude the integer n, 0 <= n <= 2^24
ExactFloat(s, n) ==
    IF n = 0 THEN Bits(s, 0, 0)
    ELSE Bits(s, 126 + BitLen(n), n * 2^(24 - BitLen(n)) - 2^23)

\* r has the value of the integer v (a zero of either sign for v = 0)
HasIntValue(r, v) ==
    IF v = 0 THEN IsZero(r)
    ELSE IF v < 0 THEN r = ExactFloat(1, -v)
    ELSE r = ExactFloat(0, v)

\* C3: for |x| < 2^23, vec_round_float(x) is the integer nearest to x, ties
\* to the even integer, with the sign bit of x; vec_floor_float(x) is the
\* greatest integer <= x; vec_ceil_float(x) is the least integer >= x.
C3_RoundingExact ==
    (pc = "done" /\ Below2p23(callArg)) =>
        /\ fn = "round" => callRet = ExactFloat(callArg.s, NearestEven(callArg))
        /\ fn = "floor" => HasIntValue(callRet, FloorInt(callArg))
        /\ fn = "ceil"  => HasIntValue(callRet, CeilInt(callArg))

\* round(2.5) == 2.0: a tie that goes to the even integer below
C3_Witness ==
    /\ fn = "round"
    /\ cnt = 0
    /\ callArg = Bits(0, 128, 2^21)
    /\ callRet = Bits(0, 128, 0)
(***************************************************************************)
(* Claims about frexp_float and ldexp_float                                *)
(***************************************************************************)
NormalPositive(x) == x.s = 0 /\ x.e >= 1 /\ x.e <= 254

\* C4: for every normal positive x with (m, e) = frexp_float(x),
\* ldexp_float(m, e) has the bit pattern of x; m has the sign and mantissa
\* bits of x and the exponent field of the fixed constant, e is the biased
\* exponent field of x minus 126.
C4_FrexpLdexpInverse ==
    (fn = "frexp_ldexp" /\ NormalPositive(callArg)) =>
        /\ callRet = callArg
        /\ midVal = Bits(callArg.s, gen_exp_mask_1.e, callArg.m)
        /\ midInt = IntBits(callArg.e - 126)
        /\ callRet.s = midVal.s
        /\ callRet.m = midVal.m

\* a normal positive lane far from the constant's binade, taken apart and
\* put together again
C4_Witness ==
    /\ fn = "frexp_ldexp"
    /\ NormalPositive(callArg)
    /\ callArg.e = 200
    /\ callArg.m = 2^23 - 1
    /\ midInt = IntBits(74)
    /\ callRet = callArg
(***************************************************************************)
(* Claims about sign symmetry                                              *)
(***************************************************************************)
\* C5: for every x, zero included, vec_sin_float(-x), vec_atan_float(-x) and
\* vec_tanh_float(-x) are vec_sin_float(x), vec_atan_float(x) and
\* vec_tanh_float(x) with the sign bit flipped, and vec_cos_float(-x) has the
\* bits of vec_cos_float(x).
C5_SignSymmetry ==
    pc = "mirrored" =>
        /\ fn \in {"sin", "atan", "tanh"} => callRet = BXor(midVal, gen_sign_mask)
        /\ fn = "cos" => callRet = midVal

(***************************************************************************)
(* Claims about idempotence                                                *)
(***************************************************************************)
\* C6: for every finite x, at and above 2^23 too,
\* vec_round_float(vec_round_float(x)) = vec_round_float(x) and
\* vec_floor_float(vec_floor_float(x)) = vec_floor_float(x): called on its own
\* result, the function returns its argument.
C6_Idempotent ==
    (pc = "done" /\ fn \in {"round", "floor"} /\ cnt >= 1 /\ IsFinite(midVal)) =>
        callRet = callArg

\* floor(floor(2^23 + 1)): the sum 2^24 + 1 is a tie that rounds down to
\* 2^24, so the first call returned 2^23 and not its argument
C6_Witness ==
    /\ pc = "done"
    /\ fn = "floor"
    /\ cnt = 1
    /\ midVal = Bits(0, 150, 1)
    /\ callArg = Bits(0, 150, 0)
    /\ callRet = Bits(0, 150, 0)

(***************************************************************************)
(* Claims about vec_acos_float                                             *)
(***************************************************************************)
\* asin(sqrt(h)) for the half distance h of x from the nearer end of [-1, 1]
AsinOfRoot(h) == vec_asin_float(FSqrt(FMul(h, gen_05)))

\* C7: for every x in [-1, 1], vec_acos_float(x) is
\* pi - 2 asin(sqrt((1 + x) / 2)) for x < -0.5, pi/2 - asin(x) for
\* -0.5 <= x <= 0.5 with both endpoints, and 2 asin(sqrt((1 - x) / 2)) for
\* x > 0.5: the argument of asin and the formula are of the same region.
C7_ThreeRegions ==
    (pc = "done" /\ fn = "acos" /\ AbsLeOne(callArg)) =>
        callRet =
            IF FLt(callArg, minus_05)
            THEN FSub(pi_c, FAdd(AsinOfRoot(FAdd(gen_one, callArg)),
                                 AsinOfRoot(FAdd(gen_one, callArg))))
            ELSE IF FLe(callArg, gen_05)
            THEN FSub(half_pi_c, vec_asin_float(callArg))
            ELSE FAdd(AsinOfRoot(FSub(gen_one, callArg)),
                      AsinOfRoot(FSub(gen_one, callArg)))

(***************************************************************************)
(* Claims about the quadrant reconstruction of sin, cos and tan            *)
(***************************************************************************)
\* q = (j / 2) mod 4
Quadrant(j) == (IntVal(j) \div 2) % 4

\* [S(r), C(r), -S(r), -C(r)][q], S the odd polynomial p2, C the even one p1
SinTable(r, q) ==
    IF q = 0 THEN trig_p2(r)
    ELSE IF q = 1 THEN trig_p1(r)
    ELSE IF q = 2 THEN FNeg(trig_p2(r))
    ELSE FNeg(trig_p1(r))

\* [C(r), -S(r), -C(r), S(r)][q]
CosTable(r, q) ==
    IF q = 0 THEN trig_p1(r)
    ELSE IF q = 1 THEN FNeg(trig_p2(r))
    ELSE IF q = 2 THEN FNeg(trig_p1(r))
    ELSE trig_p2(r)

\* T(r) for even q, -1 / T(r) for odd q
TanTable(r, q) ==
    IF q % 2 = 0 THEN tan_approx(r) ELSE FDiv(minus_one, tan_approx(r))

\* sign(x) times v
WithSignOf(x, v) == IF x.s = 1 THEN FNeg(v) ELSE v

\* C8: after j = (j + 1) & ~1 the index j is even, and with q = (j / 2)
\* mod 4 and r the reduced argument vec_sin_float returns sign(x) times
\* [S(r), C(r), -S(r), -C(r)][q], vec_cos_float returns
\* [C(r), -S(r), -C(r), S(r)][q] and vec_tan_float returns sign(x) times T(r)
\* for even q and sign(x) times -1 / T(r) for odd q; sin(0) = 0 and
\* cos(0) = 1.
C8_QuadrantReconstruction ==
    (pc = "done" /\ fn \in {"sin", "cos", "tan"}) =>
        /\ IntVal(midInt) % 2 = 0
        /\ fn = "sin" =>
               callRet = WithSignOf(callArg, SinTable(midVal, Quadrant(midInt)))
        /\ fn = "cos" => callRet = CosTable(midVal, Quadrant(midInt))
        /\ fn = "tan" =>
               callRet = WithSignOf(callArg, TanTable(midVal, Quadrant(midInt)))
        /\ (fn = "sin" /\ IsZero(callArg)) => IsZero(callRet)
        /\ (fn = "cos" /\ IsZero(callArg)) => callRet = gen_one

\* cos of a negative x in the second octant pair: j = 2, the result is -S(r)
C8_Witness ==
    /\ pc = "done"
    /\ fn = "cos"
    /\ callArg.s = 1
    /\ IntVal(midInt) = 2
    /\ callRet = FNeg(trig_p2(midVal))

(***************************************************************************)
(* Claims about vec_tanh_float                                             *)
(***************************************************************************)
FAbs(x) == Bits(0, x.e, x.m)

\* 1 - 2 / (exp_unclamped(2|x|) + 1), u what an undefined conversion yields
TanhMedium(x, u) ==
    FSub(gen_one,
         FDiv(two, FAdd(vec_exp_tanh_float(FAdd(FAbs(x), FAbs(x)), u), gen_one)))

\* C9: each lane's result comes from exactly one region: 1 with the sign of x
\* for |x| > 22, the odd polynomial on the signed x for |x| < 0.625, and
\* 1 - 2 / (exp_unclamped(2|x|) + 1) with the sign of x for
\* 0.625 <= |x| <= 22; outside the last region the result does not depend on
\* what the unclamped exponential computed.
C9_TanhRegions ==
    (pc = "done" /\ fn = "tanh" /\ ~IsNaN(callArg)) =>
        callRet =
            IF FGt(FAbs(callArg), maxlogf_2) THEN WithSignOf(callArg, gen_one)
            ELSE IF FLt(FAbs(callArg), limit_small) THEN tanh_result_small(callArg)
            ELSE WithSignOf(callArg, TanhMedium(callArg, midInt))

\* tanh(48): the unclamped exponential of 96 leaves the exponent field, the
\* medium value is -1, and the result is the 1 of the large branch
C9_Witness ==
    /\ pc = "done"
    /\ fn = "tanh"
    /\ callArg = Bits(0, 132, 4194304)
    /\ midVal = minus_one
    /\ callRet = gen_one

(***************************************************************************)
(* Claims about the mantissa fold of vec_log_float                         *)
(***************************************************************************)
\* m < sqrt(0.5) for a mantissa m of [0.5, 1): sqrt_05 is the largest float
\* below sqrt(0.5), as 11863283^2 < 2^47 < 11863284^2
BelowSqrtHalf(m) == FLe(m, sqrt_05)

\* 2m - 1 and m - 1
TwiceMinusOne(m) == FSub(FMul(two, m), gen_one)
MinusOne(m) == FSub(m, gen_one)

\* C10 as stated: with (m, e) = frexp_float(x), where m < sqrt(0.5) the
\* exponent e is incremented by 1 and m is replaced by 2m - 1; elsewhere e is
\* unchanged and m is replaced by m - 1.
C10_FoldIncrements ==
    (pc = "done" /\ fn = "log") =>
        IF BelowSqrtHalf(frexp_float(callArg).mantissa)
        THEN /\ midInt = Add32(frexp_float(callArg).exp, IntBits(1))
             /\ midVal = TwiceMinusOne(frexp_float(callArg).mantissa)
        ELSE /\ midInt = frexp_float(callArg).exp
             /\ midVal = MinusOne(frexp_float(callArg).mantissa)

\* C10: with (m, e) = frexp_float(x), where m is below the single-precision
\* literal 0.707106781186547524f the exponent e is decremented by 1 and m is
\* replaced by 2m - 1; elsewhere e is unchanged and m is replaced by m - 1.
C10_MantissaFold ==
    (pc = "done" /\ fn = "log") =>
        IF FLt(frexp_float(callArg).mantissa, sqrt_05)
        THEN /\ midInt = Sub32(frexp_float(callArg).exp, IntBits(1))
             /\ midVal = TwiceMinusOne(frexp_float(callArg).mantissa)
        ELSE /\ midInt = frexp_float(callArg).exp
             /\ midVal = MinusOne(frexp_float(callArg).mantissa)

\* log(1.0): frexp gives m = 0.5 and e = 1, the fold gives 2m - 1 = 0, e = 0
C10_Witness ==
    /\ pc = "done"
    /\ fn = "log"
    /\ callArg = gen_one
    /\ midVal = gen_zero
    /\ midInt = IntBits(0)

(***************************************************************************)
(* Claims about the exponent arithmetic of ldexp_float in vec_exp_float    *)
(***************************************************************************)
\* -103.278929903431851 <= x <= 88.72283905206835: the clamp leaves x alone
InClampRange(x) == ~IsNaN(x) /\ ~GtDecimalMaxlog(x) /\ ~LtDecimalMinlog(x)

\* C11: for every x of the clamp range with n = round(x * 1.4426950...) and
\* the polynomial value p of biased exponent 126 or 127, the sum of the
\* biased exponent of p and n lies in 1..254, so ldexp_float neither carries
\* into nor borrows from the sign bit and vec_exp_float returns a positive
\* normal float.
C11_ExponentInField ==
    (/\ pc = "done"
     /\ fn = "exp"
     /\ InClampRange(callArg)
     /\ exp_p(callArg).e \in {126, 127}) =>
        /\ exp_p(callArg).e + IntVal(midInt) \in 1..254
        /\ callRet.s = 0
        /\ callRet.e \in 1..254
====
